---- MODULE Spec2Model ----
(***************************************************************************)
(* The filter expression parser of milli                                   *)
(* (src/milli/src/search/facet/filter_parser.rs).                          *)
(*                                                                         *)
(* A &str is a sequence of one-character strings.  Every nom combinator    *)
(* the parser uses is an operator from the remaining input to an IResult:  *)
(*   Ok(rest, val)            Ok((rest, val))                              *)
(*   Err(fatal, at, kind, ch, ctx)                                         *)
(*      fatal = FALSE         nom::Err::Error   (alt / many0 go on)        *)
(*      fatal = TRUE          nom::Err::Failure (the whole parse stops)    *)
(*      kind, ch              the innermost VerboseErrorKind               *)
(*      ctx                   the message given to add_context, or ""      *)
(***************************************************************************)
EXTENDS Integers, Sequences, FiniteSets, TLC

VARIABLES
    fields_ids_map,     \* ParseContext.fields_ids_map: name -> FieldId
    filterable_fields,  \* ParseContext.filterable_fields: set of names
    input,              \* the filter expression handed to parse_expression
    lexemes,            \* how the caller wrote the input: the pieces, in order
    result,             \* what parse_expression returned (NoResult before)
    operator,           \* an Operator value handed to Operator::negate
    negation,           \* what Operator::negate returned for it
    pc                  \* "write" while the input is written, then "parsed"

vars == <<fields_ids_map, filterable_fields, input, lexemes, result,
          operator, negation, pc>>

----------------------------------------------------------------------------
(* Strings                                                                 *)

\* A &str is written <<"a", "b", "c">>: one one-character string per char.

Digit == {"0", "1", "2", "3", "4", "5", "6", "7", "8", "9"}

Lowercase ==
    {"a", "b", "c", "d", "e", "f", "g", "h", "i", "j", "k", "l", "m",
     "n", "o", "p", "q", "r", "s", "t", "u", "v", "w", "x", "y", "z"}

Uppercase ==
    {"A", "B", "C", "D", "E", "F", "G", "H", "I", "J", "K", "L", "M",
     "N", "O", "P", "Q", "R", "S", "T", "U", "V", "W", "X", "Y", "Z"}

LowerOf ==
    [c \in Uppercase |->
        CASE c = "A" -> "a" [] c = "B" -> "b" [] c = "C" -> "c" [] c = "D" -> "d"
          [] c = "E" -> "e" [] c = "F" -> "f" [] c = "G" -> "g" [] c = "H" -> "h"
          [] c = "I" -> "i" [] c = "J" -> "j" [] c = "K" -> "k" [] c = "L" -> "l"
          [] c = "M" -> "m" [] c = "N" -> "n" [] c = "O" -> "o" [] c = "P" -> "p"
          [] c = "Q" -> "q" [] c = "R" -> "r" [] c = "S" -> "s" [] c = "T" -> "t"
          [] c = "U" -> "u" [] c = "V" -> "v" [] c = "W" -> "w" [] c = "X" -> "x"
          [] c = "Y" -> "y" [] c = "Z" -> "z"]

\* char::to_lowercase
to_lowercase_char(c) == IF c \in Uppercase THEN LowerOf[c] ELSE c

\* str::to_lowercase
to_lowercase(s) == [i \in 1..Len(s) |-> to_lowercase_char(s[i])]

\* s without its first n chars
Drop(s, n) == SubSeq(s, n + 1, Len(s))

\* the length of the longest prefix of s whose chars are all in set
RECURSIVE SpanLen(_, _)
SpanLen(s, set) ==
    IF s # <<>> /\ Head(s) \in set THEN 1 + SpanLen(Tail(s), set) ELSE 0

\* the length of the longest prefix of s that holds no c
RECURSIVE TillLen(_, _)
TillLen(s, c) ==
    IF s # <<>> /\ Head(s) # c THEN 1 + TillLen(Tail(s), c) ELSE 0

----------------------------------------------------------------------------
(* IResult                                                                 *)

Ok(rest, val) == [ok |-> TRUE, rest |-> rest, val |-> val]

Err(fatal, at, kind, ch, ctx) ==
    [ok |-> FALSE, fatal |-> fatal, at |-> at, kind |-> kind, ch |-> ch,
     ctx |-> ctx]

\* nom::Err::Error(E::from_error_kind(input, kind))
Error(at, kind) == Err(FALSE, at, kind, "", "")

IsError(r) == ~r.ok /\ ~r.fatal
IsFailure(r) == ~r.ok /\ r.fatal

\* `let v = r?; F(v)`, and a parser that follows another in a tuple or a
\* delimited: F on what r returned when r is Ok, else r's error
and_then(r, F(_)) == IF r.ok THEN F(r) ELSE r

\* nom::branch::alt of two parsers, r and next what each returned on the same
\* input: next only after an Error of r
alt(r, next) == IF r.ok \/ r.fatal THEN r ELSE next

NoResult == [ok |-> FALSE, fatal |-> FALSE, at |-> <<>>, kind |-> "none",
             ch |-> "", ctx |-> ""]

----------------------------------------------------------------------------
(* f64 and <f64 as FromStr>::from_str                                      *)
(*                                                                         *)
(* A finite f64 is kept as the decimal it was written as, m * 10^e with m  *)
(* free of trailing zeros, so that two literals of one value (10, 1e1,     *)
(* 10.0) are one f64; -0.0 == 0.0 as PartialEq has it.  A literal beyond   *)
(* the f64 range is inf, one below it is 0, as from_str rounds them.       *)

Finite(neg, m, e) == [cls |-> "finite", neg |-> neg, m |-> m, e |-> e]
Infinity(neg) == [cls |-> "inf", neg |-> neg, m |-> 0, e |-> 0]
NaN == [cls |-> "nan", neg |-> FALSE, m |-> 0, e |-> 0]

is_finite(v) == v.cls = "finite"

Some(v) == [some |-> TRUE, v |-> v]
None == [some |-> FALSE, v |-> NaN]

DigitVal ==
    [c \in Digit |->
        CASE c = "0" -> 0 [] c = "1" -> 1 [] c = "2" -> 2 [] c = "3" -> 3
          [] c = "4" -> 4 [] c = "5" -> 5 [] c = "6" -> 6 [] c = "7" -> 7
          [] c = "8" -> 8 [] c = "9" -> 9]

\* the number a run of decimal digits writes
RECURSIVE DigitsToInt(_)
DigitsToInt(s) ==
    IF s = <<>> THEN 0
    ELSE 10 * DigitsToInt(SubSeq(s, 1, Len(s) - 1)) + DigitVal[s[Len(s)]]

RECURSIVE NumDigits(_)
NumDigits(n) == IF n < 10 THEN 1 ELSE 1 + NumDigits(n \div 10)

RECURSIVE Pow10(_)
Pow10(n) == IF n = 0 THEN 1 ELSE 10 * Pow10(n - 1)

\* m * 10^e as an f64; 308 and -324 are the largest and the smallest decimal
\* exponent of a finite, nonzero f64
RECURSIVE Decimal(_, _, _)
Decimal(neg, m, e) ==
    IF m = 0 THEN Finite(FALSE, 0, 0)
    ELSE IF m % 10 = 0 THEN Decimal(neg, m \div 10, e + 1)
    ELSE IF NumDigits(m) + e - 1 > 308 THEN Infinity(neg)
    ELSE IF NumDigits(m) + e - 1 < 0 - 324 THEN Finite(FALSE, 0, 0)
    ELSE Finite(neg, m, e)

\* the exponent part of a decimal literal: digits the mantissa's digits, fp
\* how many of them follow the point, tail what follows the mantissa
decimal_exponent(neg, digits, fp, tail) ==
    IF digits = <<>> THEN None
    ELSE IF tail = <<>> THEN Some(Decimal(neg, DigitsToInt(digits), 0 - fp))
    ELSE IF Head(tail) \notin {"e", "E"} \/ Len(tail) < 2 THEN None
    ELSE IF tail[2] = "-"
         THEN IF Len(tail) >= 3 /\ SpanLen(Drop(tail, 2), Digit) = Len(tail) - 2
              THEN Some(Decimal(neg, DigitsToInt(digits),
                                0 - DigitsToInt(Drop(tail, 2)) - fp))
              ELSE None
    ELSE IF tail[2] = "+"
         THEN IF Len(tail) >= 3 /\ SpanLen(Drop(tail, 2), Digit) = Len(tail) - 2
              THEN Some(Decimal(neg, DigitsToInt(digits),
                                DigitsToInt(Drop(tail, 2)) - fp))
              ELSE None
    ELSE IF SpanLen(Tail(tail), Digit) = Len(tail) - 1
         THEN Some(Decimal(neg, DigitsToInt(digits), DigitsToInt(Tail(tail)) - fp))
         ELSE None

\* the fraction part: ip digits lead body, fp digits follow the point
decimal_fraction(neg, body, ip, fp) ==
    decimal_exponent(neg, SubSeq(body, 1, ip) \o SubSeq(body, ip + 2, ip + 1 + fp),
                     fp, Drop(body, ip + 1 + fp))

\* [digits] [. [digits]] [(e|E) [sign] digits], at least one mantissa digit
decimal_integer(neg, body, ip) ==
    IF Len(body) > ip /\ body[ip + 1] = "."
    THEN decimal_fraction(neg, body, ip, SpanLen(Drop(body, ip + 1), Digit))
    ELSE decimal_exponent(neg, SubSeq(body, 1, ip), 0, Drop(body, ip))

ParseDecimal(neg, body) == decimal_integer(neg, body, SpanLen(body, Digit))

\* the literal without its sign: inf, infinity, nan in any case, or a decimal
parse_unsigned(neg, body) ==
    IF body = <<>> THEN None
    ELSE IF to_lowercase(body) \in {<<"i", "n", "f">>,
                                     <<"i", "n", "f", "i", "n", "i", "t", "y">>}
         THEN Some(Infinity(neg))
    ELSE IF to_lowercase(body) = <<"n", "a", "n">> THEN Some(NaN)
    ELSE ParseDecimal(neg, body)

\* str::parse::<f64>(): Some(v) for Ok(v), None for Err(_)
parse_f64(s) ==
    IF s # <<>> /\ Head(s) \in {"+", "-"}
    THEN parse_unsigned(Head(s) = "-", Tail(s))
    ELSE parse_unsigned(FALSE, s)

\* v * 10^e <= bound, for whole v >= 1 and e >= 0
scaled_le(m, e, bound) ==
    m <= bound /\ e < NumDigits(bound) /\ m * Pow10(e) <= bound

\* (-bound ..= bound).contains(&v), bound a whole number
contains(bound, v) ==
    /\ is_finite(v)
    /\ IF v.e >= 0 THEN scaled_le(v.m, v.e, bound)
       ELSE \/ NumDigits(v.m) + v.e <= 0           \* no digit before the point
            \/ /\ NumDigits(v.m) + v.e <= NumDigits(bound)
               /\ v.m \div Pow10(0 - v.e) < bound

----------------------------------------------------------------------------
(* nom combinators, as the parser uses them                                *)

\* nom::bytes::complete::tag(t)
tag(t, in) ==
    IF Len(in) >= Len(t) /\ SubSeq(in, 1, Len(t)) = t
    THEN Ok(Drop(in, Len(t)), t)
    ELSE Error(in, "Tag")

\* nom::character::complete::char(c)
char(c, in) ==
    IF in # <<>> /\ Head(in) = c
    THEN Ok(Tail(in), c)
    ELSE Err(FALSE, in, "Char", c, "")

\* nom::character::complete::multispace0: what is left after the whitespace
multispace0(in) == Drop(in, SpanLen(in, {" ", "\t", "\n", "\r"}))

\* ParseContext::ws(inner), given what inner returned on multispace0(in)
ws(r) == IF r.ok THEN Ok(multispace0(r.rest), r.val) ELSE r

\* the chars ParseContext::is_key_component holds of
KeyComponent == Lowercase \cup Uppercase \cup Digit \cup {"_", "-", "."}

\* ParseContext::is_key_component
is_key_component(c) == c \in KeyComponent

\* take_till(|c| c == q): all of the input when it holds no q
take_till(q, in) == Ok(Drop(in, TillLen(in, q)), SubSeq(in, 1, TillLen(in, q)))

\* quoted with the delimiters left in the token
quoted_with_delimiters(q, in) ==
    and_then(char(q, in), LAMBDA open :
    and_then(take_till(q, open.rest), LAMBDA key :
    and_then(char(q, key.rest), LAMBDA close :
    Ok(close.rest, <<q>> \o key.val \o <<q>>))))

\* delimited(char(q), take_till(|c| c == q), char(q))
quoted(q, in) ==
    and_then(char(q, in), LAMBDA open :
    and_then(take_till(q, open.rest), LAMBDA key :
    and_then(char(q, key.rest), LAMBDA close :
    Ok(close.rest, key.val))))

\* take_while1(Self::is_key_component)
word(in) ==
    IF SpanLen(in, KeyComponent) >= 1
    THEN Ok(Drop(in, SpanLen(in, KeyComponent)), SubSeq(in, 1, SpanLen(in, KeyComponent)))
    ELSE Error(in, "TakeWhile1")

\* ParseContext::parse_value
parse_value(in) ==
    alt(ws(quoted("'", multispace0(in))),
    alt(ws(quoted("\"", multispace0(in))),
        ws(word(multispace0(in)))))

\* parse_numeric failing with a recoverable Error in place of a Failure
parse_numeric_recoverable(in) ==
    IF parse_f64(in).some THEN Ok(<<>>, parse_f64(in).v)
    ELSE IF in # <<>> THEN Err(FALSE, in, "Char", Head(in), "")
    ELSE Err(FALSE, in, "Eof", "", "")

\* ParseContext::parse_numeric::<E, f64>
parse_numeric(in) ==
    IF parse_f64(in).some THEN Ok(<<>>, parse_f64(in).v)
    ELSE IF in # <<>> THEN Err(TRUE, in, "Char", Head(in), "")
    ELSE Err(TRUE, in, "Eof", "", "")

AttributeNotFilterable == "Attribute is not filterable"

\* parse_fid looking the name up in the fields ids map only
parse_fid_map_only(map, filterable, in, key) ==
    IF key \in DOMAIN map
    THEN Ok(in, map[key])
    ELSE Err(TRUE, in, "Char", "T", "Attribute is not filterable")

\* ParseContext::parse_fid
parse_fid(map, filterable, in, key) ==
    IF key \in DOMAIN map /\ key \in filterable
    THEN Ok(in, map[key])
    ELSE Err(TRUE, in, "Char", "T", AttributeNotFilterable)

----------------------------------------------------------------------------
(* Operator and FilterCondition                                            *)

GreaterThan(n) == [op |-> "GreaterThan", n |-> n]
GreaterThanOrEqual(n) == [op |-> "GreaterThanOrEqual", n |-> n]
Equal(n, s) == [op |-> "Equal", n |-> n, s |-> s]
NotEqual(n, s) == [op |-> "NotEqual", n |-> n, s |-> s]
LowerThan(n) == [op |-> "LowerThan", n |-> n]
LowerThanOrEqual(n) == [op |-> "LowerThanOrEqual", n |-> n]
Between(n, m) == [op |-> "Between", n |-> n, m |-> m]
GeoLowerThan(point, distance) ==
    [op |-> "GeoLowerThan", point |-> point, distance |-> distance]
GeoGreaterThan(point, distance) ==
    [op |-> "GeoGreaterThan", point |-> point, distance |-> distance]

\* negate with the strict and the inclusive bound mixed up: > becomes <
negate_strict(o) ==
    CASE o.op = "GreaterThan" -> <<LowerThan(o.n)>>
      [] o.op = "GreaterThanOrEqual" -> <<LowerThan(o.n)>>
      [] o.op = "Equal" -> <<NotEqual(o.n, o.s)>>
      [] o.op = "NotEqual" -> <<Equal(o.n, o.s)>>
      [] o.op = "LowerThan" -> <<GreaterThanOrEqual(o.n)>>
      [] o.op = "LowerThanOrEqual" -> <<GreaterThan(o.n)>>
      [] o.op = "Between" -> <<LowerThan(o.n), GreaterThan(o.m)>>
      [] o.op = "GeoLowerThan" -> <<GeoGreaterThan(o.point, o.distance)>>
      [] o.op = "GeoGreaterThan" -> <<GeoLowerThan(o.point, o.distance)>>

\* negate with the lower bound of a range used twice
negate_one_bound(o) ==
    CASE o.op = "GreaterThan" -> <<LowerThanOrEqual(o.n)>>
      [] o.op = "GreaterThanOrEqual" -> <<LowerThan(o.n)>>
      [] o.op = "Equal" -> <<NotEqual(o.n, o.s)>>
      [] o.op = "NotEqual" -> <<Equal(o.n, o.s)>>
      [] o.op = "LowerThan" -> <<GreaterThanOrEqual(o.n)>>
      [] o.op = "LowerThanOrEqual" -> <<GreaterThan(o.n)>>
      [] o.op = "Between" -> <<LowerThan(o.n), GreaterThan(o.n)>>
      [] o.op = "GeoLowerThan" -> <<GeoGreaterThan(o.point, o.distance)>>
      [] o.op = "GeoGreaterThan" -> <<GeoLowerThan(o.point, o.distance)>>

\* Operator::negate: <<first>> for (first, None), <<first, second>> for
\* (first, Some(second))
negate(o) ==
    CASE o.op = "GreaterThan" -> <<LowerThanOrEqual(o.n)>>
      [] o.op = "GreaterThanOrEqual" -> <<LowerThan(o.n)>>
      [] o.op = "Equal" -> <<NotEqual(o.n, o.s)>>
      [] o.op = "NotEqual" -> <<Equal(o.n, o.s)>>
      [] o.op = "LowerThan" -> <<GreaterThanOrEqual(o.n)>>
      [] o.op = "LowerThanOrEqual" -> <<GreaterThan(o.n)>>
      [] o.op = "Between" -> <<LowerThan(o.n), GreaterThan(o.m)>>
      [] o.op = "GeoLowerThan" -> <<GeoGreaterThan(o.point, o.distance)>>
      [] o.op = "GeoGreaterThan" -> <<GeoLowerThan(o.point, o.distance)>>

\* FilterCondition::Operator(fid, op), ::And, ::Or, ::Empty
Operator(fid, o) == [tag |-> "Operator", fid |-> fid, op |-> o]
And(a, b) == [tag |-> "And", l |-> a, r |-> b]
Or(a, b) == [tag |-> "Or", l |-> a, r |-> b]
Empty == [tag |-> "Empty"]

\* FilterCondition::negate (super::FilterCondition, outside this file): the
\* rewriting the tests of this file pin down
RECURSIVE FilterCondition_negate(_)
FilterCondition_negate(fc) ==
    CASE fc.tag = "Operator" ->
            LET n == negate(fc.op)
            IN  IF Len(n) = 1 THEN Operator(fc.fid, n[1])
                ELSE Or(Operator(fc.fid, n[1]), Operator(fc.fid, n[2]))
      [] fc.tag = "Or" ->
            And(FilterCondition_negate(fc.l), FilterCondition_negate(fc.r))
      [] fc.tag = "And" ->
            Or(FilterCondition_negate(fc.l), FilterCondition_negate(fc.r))
      [] fc.tag = "Empty" -> Empty

----------------------------------------------------------------------------
(* The grammar.  self is the ParseContext: [fields_ids_map, filterable_fields] *)

\* alt((tag("<="), tag(">="), tag("!="), tag("<"), tag(">"), tag("=")))
operator_tag(in) ==
    alt(tag(<<"<", "=">>, in),
    alt(tag(<<">", "=">>, in),
    alt(tag(<<"!", "=">>, in),
    alt(tag(<<"<">>, in),
    alt(tag(<<">">>, in),
        tag(<<"=">>, in))))))

\* r.ok() of a Result<f64, _>
ok(r) == IF r.ok THEN Some(r.val) ELSE None

\* condition_match keeping the right-hand token in the case it was written in
condition_match_case_kept(rest, fid, op, value, r) ==
    IF op = <<"=">>
    THEN Ok(rest, Operator(fid, Equal(ok(r), value)))
    ELSE IF op = <<"!", "=">>
    THEN Ok(rest, Operator(fid, NotEqual(ok(r), value)))
    ELSE and_then(r, LAMBDA numeric :
         IF op = <<">">> THEN Ok(rest, Operator(fid, GreaterThan(numeric.val)))
         ELSE IF op = <<"<">> THEN Ok(rest, Operator(fid, LowerThan(numeric.val)))
         ELSE IF op = <<"<", "=">>
              THEN Ok(rest, Operator(fid, LowerThanOrEqual(numeric.val)))
         ELSE Ok(rest, Operator(fid, GreaterThanOrEqual(numeric.val))))

\* the match of parse_condition: value the right-hand token, r what
\* parse_numeric returned for it
condition_match(rest, fid, op, value, r) ==
    IF op = <<"=">>
    THEN Ok(rest, Operator(fid, Equal(ok(r), to_lowercase(value))))
    ELSE IF op = <<"!", "=">>
    THEN Ok(rest, Operator(fid, NotEqual(ok(r), to_lowercase(value))))
    ELSE and_then(r, LAMBDA numeric :
         IF op = <<">">> THEN Ok(rest, Operator(fid, GreaterThan(numeric.val)))
         ELSE IF op = <<"<">> THEN Ok(rest, Operator(fid, LowerThan(numeric.val)))
         ELSE IF op = <<"<", "=">>
              THEN Ok(rest, Operator(fid, LowerThanOrEqual(numeric.val)))
         ELSE Ok(rest, Operator(fid, GreaterThanOrEqual(numeric.val))))

\* ParseContext::parse_condition
parse_condition(self, in) ==
    and_then(parse_value(in), LAMBDA key :
    and_then(operator_tag(key.rest), LAMBDA op :
    and_then(parse_value(op.rest), LAMBDA value :
    and_then(parse_fid(self.fields_ids_map, self.filterable_fields,
                       value.rest, key.val), LAMBDA fid :
    condition_match(value.rest, fid.val, op.val, value.val,
                    parse_numeric(value.val))))))

\* parse_to with the two bounds of Between exchanged
parse_to_exchanged(self, in) ==
    and_then(parse_value(in), LAMBDA key :
    and_then(parse_value(key.rest), LAMBDA from :
    and_then(tag(<<"T", "O">>, from.rest), LAMBDA to_tag :
    and_then(parse_value(to_tag.rest), LAMBDA to :
    and_then(parse_fid(self.fields_ids_map, self.filterable_fields,
                       to.rest, key.val), LAMBDA fid :
    and_then(parse_numeric(from.val), LAMBDA numeric_from :
    and_then(parse_numeric(to.val), LAMBDA numeric_to :
    Ok(to.rest, Operator(fid.val, Between(numeric_to.val, numeric_from.val))))))))))

\* ParseContext::parse_to
parse_to(self, in) ==
    and_then(parse_value(in), LAMBDA key :
    and_then(parse_value(key.rest), LAMBDA from :
    and_then(tag(<<"T", "O">>, from.rest), LAMBDA to_tag :
    and_then(parse_value(to_tag.rest), LAMBDA to :
    and_then(parse_fid(self.fields_ids_map, self.filterable_fields,
                       to.rest, key.val), LAMBDA fid :
    and_then(parse_numeric(from.val), LAMBDA numeric_from :
    and_then(parse_numeric(to.val), LAMBDA numeric_to :
    Ok(to.rest, Operator(fid.val, Between(numeric_from.val, numeric_to.val))))))))))

\* cut(digit1) of the exponent of recognize_float, n chars recognized so far
float_exponent_digits(in, n) ==
    IF SpanLen(Drop(in, n), Digit) = 0
    THEN Err(TRUE, Drop(in, n), "Digit", "", "")
    ELSE Ok(Drop(in, n + SpanLen(Drop(in, n), Digit)),
            SubSeq(in, 1, n + SpanLen(Drop(in, n), Digit)))

\* the exponent of recognize_float, n chars of in recognized so far:
\* opt(tuple((alt((char('e'), char('E'))), opt(sign), cut(digit1))))
float_exponent(in, n) ==
    IF Len(in) > n /\ in[n + 1] \in {"e", "E"}
    THEN IF Len(in) > n + 1 /\ in[n + 2] \in {"+", "-"}
         THEN float_exponent_digits(in, n + 2)
         ELSE float_exponent_digits(in, n + 1)
    ELSE Ok(Drop(in, n), SubSeq(in, 1, n))

\* the mantissa of recognize_float after s sign chars and ip digits:
\* alt((digit1 opt(pair(char('.'), opt(digit1))), pair(char('.'), digit1)))
float_mantissa(in, s, ip) ==
    IF Len(in) > s + ip /\ in[s + ip + 1] = "."
    THEN IF ip >= 1 \/ SpanLen(Drop(in, s + ip + 1), Digit) >= 1
         THEN float_exponent(in, s + ip + 1 + SpanLen(Drop(in, s + ip + 1), Digit))
         ELSE Error(in, "Char")
    ELSE IF ip >= 1 THEN float_exponent(in, s + ip)
    ELSE Error(in, "Char")

\* nom::number::complete::recognize_float
recognize_float(in) ==
    IF in # <<>> /\ Head(in) \in {"+", "-"}
    THEN float_mantissa(in, 1, SpanLen(Tail(in), Digit))
    ELSE float_mantissa(in, 0, SpanLen(in, Digit))

\* the loop of separated_list1(tag(","), self.ws(recognize_float)), res the
\* list so far: it ends on an Error of the separator or of the element
RECURSIVE separated_list1_loop(_, _)
separated_list1_loop(in, res) ==
    alt(and_then(tag(<<",">>, in), LAMBDA sep :
        and_then(ws(recognize_float(multispace0(sep.rest))), LAMBDA f :
        separated_list1_loop(f.rest, Append(res, f.val)))),
        Ok(in, res))

\* separated_list1(tag(","), self.ws(recognize_float))
separated_list1(in) ==
    and_then(ws(recognize_float(multispace0(in))), LAMBDA f :
    separated_list1_loop(f.rest, <<f.val>>))

\* the three messages of parse_geo_radius (the first without its backquotes)
err_msg_args_incomplete ==
    "_geoRadius. The _geoRadius filter expect three arguments: _geoRadius(latitude, longitude, radius)"
err_msg_latitude_invalid ==
    "_geoRadius. Latitude must be contained between -90 and 90 degrees."
err_msg_longitude_invalid ==
    "_geoRadius. Longitude must be contained between -180 and 180 degrees."

MaxLatitude == 90
MaxLongitude == 180
GeoArgs == 3

GeoField == <<"_", "g", "e", "o">>

\* preceded(self.ws(tag("_geoRadius")),
\*          delimited(char('('), separated_list1(..), char(')')))
geo_radius_args(in) ==
    and_then(ws(tag(<<"_", "g", "e", "o", "R", "a", "d", "i", "u", "s">>,
                    multispace0(in))), LAMBDA name :
    and_then(char("(", name.rest), LAMBDA open :
    and_then(separated_list1(open.rest), LAMBDA list :
    and_then(char(")", list.rest), LAMBDA close :
    Ok(close.rest, list.val)))))

\* geo_radius_leaf refusing the clause when the index has no _geo
geo_radius_leaf_refusing(self, rest, lat, lng, dis) ==
    IF GeoField \notin DOMAIN self.fields_ids_map
    THEN Err(TRUE, rest, "Char", "T", "Attribute is not filterable")
    ELSE IF ~contains(MaxLatitude, lat)
    THEN Err(TRUE, rest, "Char", "(", err_msg_latitude_invalid)
    ELSE IF ~contains(MaxLongitude, lng)
    THEN Err(TRUE, rest, "Char", "(", err_msg_longitude_invalid)
    ELSE Ok(rest, Operator(self.fields_ids_map[GeoField],
                           GeoLowerThan(<<lat, lng>>, dis)))

\* geo_radius_leaf looking at the longitude before the latitude
geo_radius_leaf_longitude_first(self, rest, lat, lng, dis) ==
    IF GeoField \notin DOMAIN self.fields_ids_map THEN Ok(rest, Empty)
    ELSE IF ~contains(MaxLongitude, lng)
    THEN Err(TRUE, rest, "Char", "(", err_msg_longitude_invalid)
    ELSE IF ~contains(MaxLatitude, lat)
    THEN Err(TRUE, rest, "Char", "(", err_msg_latitude_invalid)
    ELSE Ok(rest, Operator(self.fields_ids_map[GeoField],
                           GeoLowerThan(<<lat, lng>>, dis)))

\* parse_geo_radius once its three arguments are numbers
geo_radius_leaf(self, rest, lat, lng, dis) ==
    IF GeoField \notin DOMAIN self.fields_ids_map THEN Ok(rest, Empty)
    ELSE IF ~contains(MaxLatitude, lat)
    THEN Err(TRUE, rest, "Char", "(", err_msg_latitude_invalid)
    ELSE IF ~contains(MaxLongitude, lng)
    THEN Err(TRUE, rest, "Char", "(", err_msg_longitude_invalid)
    ELSE Ok(rest, Operator(self.fields_ids_map[GeoField],
                           GeoLowerThan(<<lat, lng>>, dis)))

\* geo_radius_parsed refusing fewer than three arguments only
geo_radius_parsed_at_least(self, in, parsed) ==
    IF ~parsed.ok
    THEN Err(TRUE, in, "Char", "(", err_msg_args_incomplete)
    ELSE IF Len(parsed.val) < GeoArgs
    THEN Err(TRUE, parsed.rest, "Char", "(", err_msg_args_incomplete)
    ELSE and_then(parse_numeric(parsed.val[1]), LAMBDA lat :
         and_then(parse_numeric(parsed.val[2]), LAMBDA lng :
         and_then(parse_numeric(parsed.val[3]), LAMBDA dis :
         geo_radius_leaf(self, parsed.rest, lat.val, lng.val, dis.val))))

\* parse_geo_radius after its match on parsed
geo_radius_parsed(self, in, parsed) ==
    IF ~parsed.ok
    THEN Err(TRUE, in, "Char", "(", err_msg_args_incomplete)
    ELSE IF Len(parsed.val) # GeoArgs
    THEN Err(TRUE, parsed.rest, "Char", "(", err_msg_args_incomplete)
    ELSE and_then(parse_numeric(parsed.val[1]), LAMBDA lat :
         and_then(parse_numeric(parsed.val[2]), LAMBDA lng :
         and_then(parse_numeric(parsed.val[3]), LAMBDA dis :
         geo_radius_leaf(self, parsed.rest, lat.val, lng.val, dis.val))))

\* ParseContext::parse_geo_radius
parse_geo_radius(self, in) == geo_radius_parsed(self, in, geo_radius_args(in))

RECURSIVE parse_or(_, _)
RECURSIVE parse_or_many0(_, _, _)
RECURSIVE parse_and(_, _)
RECURSIVE parse_and_many0(_, _, _)
RECURSIVE parse_not(_, _)
RECURSIVE parse_primary(_, _)
RECURSIVE parse_expression(_, _)

\* ParseContext::parse_or
parse_or(self, in) ==
    and_then(parse_and(self, in), LAMBDA lhs :
    parse_or_many0(self, lhs.rest, lhs.val))

\* the fold of parse_or with the branch on the left of the accumulator
parse_or_many0_reversed(self, in, acc) ==
    alt(and_then(ws(tag(<<"O", "R">>, multispace0(in))), LAMBDA t :
        and_then(parse_and(self, t.rest), LAMBDA branch :
        parse_or_many0(self, branch.rest, Or(branch.val, acc)))),
        Ok(in, acc))

\* many0(preceded(self.ws(tag("OR")), parse_and)) and the fold of parse_or,
\* acc the fold so far: many0 ends on an Error of the pair
parse_or_many0(self, in, acc) ==
    alt(and_then(ws(tag(<<"O", "R">>, multispace0(in))), LAMBDA t :
        and_then(parse_and(self, t.rest), LAMBDA branch :
        parse_or_many0(self, branch.rest, Or(acc, branch.val)))),
        Ok(in, acc))

\* ParseContext::parse_and
parse_and(self, in) ==
    and_then(parse_not(self, in), LAMBDA lhs :
    parse_and_many0(self, lhs.rest, lhs.val))

\* the fold of parse_and with the branch on the left of the accumulator
parse_and_many0_reversed(self, in, acc) ==
    alt(and_then(ws(tag(<<"A", "N", "D">>, multispace0(in))), LAMBDA t :
        and_then(parse_not(self, t.rest), LAMBDA branch :
        parse_and_many0(self, branch.rest, And(branch.val, acc)))),
        Ok(in, acc))

\* many0(preceded(self.ws(tag("AND")), parse_not)) and the fold of parse_and
parse_and_many0(self, in, acc) ==
    alt(and_then(ws(tag(<<"A", "N", "D">>, multispace0(in))), LAMBDA t :
        and_then(parse_not(self, t.rest), LAMBDA branch :
        parse_and_many0(self, branch.rest, And(acc, branch.val)))),
        Ok(in, acc))

\* parse_not dropping the NOT without negating what follows
parse_not_dropped(self, in) ==
    alt(and_then(alt(tag(<<"!">>, in), tag(<<"N", "O", "T">>, in)), LAMBDA t :
        and_then(parse_not(self, t.rest), LAMBDA e :
        Ok(e.rest, e.val))),
        parse_primary(self, in))

\* ParseContext::parse_not
parse_not(self, in) ==
    alt(and_then(alt(tag(<<"!">>, in), tag(<<"N", "O", "T">>, in)), LAMBDA t :
        and_then(parse_not(self, t.rest), LAMBDA e :
        Ok(e.rest, FilterCondition_negate(e.val)))),
        parse_primary(self, in))

\* ParseContext::parse_primary
parse_primary(self, in) ==
    alt(and_then(ws(char("(", multispace0(in))), LAMBDA open :
        and_then(parse_expression(self, open.rest), LAMBDA inner :
        and_then(ws(char(")", multispace0(inner.rest))), LAMBDA close :
        Ok(close.rest, inner.val)))),
    alt(parse_condition(self, in),
    alt(parse_to(self, in),
        parse_geo_radius(self, in))))

\* ParseContext::parse_expression
parse_expression(self, in) == parse_or(self, in)

----------------------------------------------------------------------------
(* The index the parser reads (what the tests of this file set up)         *)

channel == <<"c", "h", "a", "n">>
dog_race == <<"d", "o", "g", " ", "r">>
subscribers == <<"s", "u", "b", "s">>
hidden == <<"h", "i", "d">>             \* in the fields ids map, not filterable
ghost == <<"g", "h", "o">>              \* filterable, not in the fields ids map
unknown == <<"n", "o", "n", "e">>       \* in neither

\* FieldsIdsMap after map.insert of each name in turn: ids in insertion order
FieldsIdsMapOf(names) == [n \in {names[i] : i \in 1..Len(names)} |->
                            (CHOOSE i \in 1..Len(names) : names[i] = n) - 1]

\* the index of tests::string, with a field that is not filterable and a
\* filterable name no document has brought into the fields ids map yet
Index ==
    [fields_ids_map |-> FieldsIdsMapOf(<<channel, dog_race, subscribers, GeoField, hidden>>),
     filterable_fields |-> {channel, dog_race, subscribers, GeoField, ghost}]

\* an index without the _geo field (tests::number, tests::parentheses)
IndexWithoutGeo ==
    [fields_ids_map |-> FieldsIdsMapOf(<<channel, dog_race, subscribers, hidden>>),
     filterable_fields |-> {channel, dog_race, subscribers, ghost}]

Schemas == {Index, IndexWithoutGeo}

self == [fields_ids_map |-> fields_ids_map, filterable_fields |-> filterable_fields]

----------------------------------------------------------------------------
(* Writing an expression: the caller writes the input lexeme by lexeme,    *)
(* then hands it to parse_expression.                                      *)

Lexeme(kind, raw, text) == [kind |-> kind, raw |-> raw, text |-> text]

\* the leaf conditions an expression is written from
Leaves ==
    {Lexeme("leaf", <<"a">>, <<"c", "h", "a", "n", " ", "=", " ", "m", "v">>),
     Lexeme("leaf", <<"b">>, <<"s", "u", "b", "s", " ", "1", " ", "T", "O", " ", "4">>)}

Connectives ==
    {Lexeme("and", <<>>, <<" ", "A", "N", "D", " ">>),
     Lexeme("or", <<>>, <<" ", "O", "R", " ">>)}

Negations ==
    {Lexeme("not", <<>>, <<"N", "O", "T", " ">>),
     Lexeme("not", <<>>, <<"!">>)}

OpenParen == Lexeme("open", <<>>, <<"(">>)
CloseParen == Lexeme("close", <<>>, <<")">>)

MaxLexemes == 7

Count(lexs, kind) == Cardinality({i \in 1..Len(lexs) : lexs[i].kind = kind})

\* the parentheses still open
Depth(lexs) == Count(lexs, "open") - Count(lexs, "close")

\* an operand comes next: at the start, after a connective, a NOT or a "("
ExpectsOperand(lexs) ==
    IF lexs = <<>> THEN TRUE
    ELSE lexs[Len(lexs)].kind \in {"and", "or", "not", "open"}

\* nothing is written after a ")" that closes nothing
Write(lex) ==
    /\ pc = "write"
    /\ Len(lexemes) < MaxLexemes
    /\ Count(lexemes, "stray") = 0
    /\ lexemes' = Append(lexemes, lex)
    /\ input' = input \o lex.text
    /\ UNCHANGED <<fields_ids_map, filterable_fields, result, operator, negation, pc>>

WriteLeaf == \E lex \in Leaves : ExpectsOperand(lexemes) /\ Write(lex)

WriteNot == \E lex \in Negations : ExpectsOperand(lexemes) /\ Write(lex)

WriteOpen == ExpectsOperand(lexemes) /\ Write(OpenParen)

WriteConnective == \E lex \in Connectives : ~ExpectsOperand(lexemes) /\ Write(lex)

WriteClose == ~ExpectsOperand(lexemes) /\ Depth(lexemes) > 0 /\ Write(CloseParen)

\* a ")" where no parenthesis is open
WriteStrayClose ==
    /\ ~ExpectsOperand(lexemes)
    /\ Depth(lexemes) = 0
    /\ Write(Lexeme("stray", <<>>, <<")">>))

\* FilterCondition::from_str: parse_expression on the input, with the index's
\* fields ids map and filterable fields
Parse ==
    /\ pc = "write"
    /\ result' = parse_expression(self, input)
    /\ pc' = "parsed"
    /\ UNCHANGED <<fields_ids_map, filterable_fields, input, lexemes, operator, negation>>

NoOperator == [op |-> "none"]

\* nothing written yet, schema the index the parser reads
Start(schema) ==
    /\ fields_ids_map = schema.fields_ids_map
    /\ filterable_fields = schema.filterable_fields
    /\ input = <<>>
    /\ lexemes = <<>>
    /\ result = NoResult
    /\ operator = NoOperator
    /\ negation = <<>>
    /\ pc = "write"

Init == Start(Index)

Next ==
    \/ WriteLeaf
    \/ WriteNot
    \/ WriteOpen
    \/ WriteConnective
    \/ WriteClose
    \/ WriteStrayClose
    \/ Parse

Spec == Init /\ [][Next]_vars

----------------------------------------------------------------------------
(* Writing one leaf condition: [NOT] key operator value, [NOT] key from TO *)
(* to, or [NOT] _geoRadius(...), each piece in one of the ways the value   *)
(* grammar lets it be written.                                             *)

\* x written bare, 'x' or "x"
Quoted(quote, x) ==
    CASE quote = "bare" -> x
      [] quote = "single" -> <<"'">> \o x \o <<"'">>
      [] quote = "double" -> <<"\"">> \o x \o <<"\"">>

Quotes == {"bare", "single", "double"}

\* the attribute names a condition is written with, and how each is quoted
KeyForms ==
    {Lexeme("key", channel, Quoted(q, channel)) : q \in Quotes}
    \cup {Lexeme("key", dog_race, Quoted(q, dog_race)) : q \in {"single", "double"}}
    \cup {Lexeme("key", n, n) : n \in {hidden, ghost, unknown}}

\* the six operators, spaced; = and >= also written tight
OpForms ==
    {Lexeme("op", o, <<" ">> \o o \o <<" ">>) :
        o \in {<<"<", "=">>, <<">", "=">>, <<"!", "=">>, <<"<">>, <<">">>, <<"=">>}}
    \cup {Lexeme("op", o, o) : o \in {<<"=">>, <<">", "=">>}}

\* right-hand values: numbers, words in several casings, the literals f64
\* reads as non-finite, a value with a space, the empty value, a near-number
Values ==
    {<<"1", "2">>, <<"-", "1", ".", "5">>, <<"1", "e", "1">>,
     <<"m", "v">>, <<"M", "v">>, <<"i", "n", "f">>, <<"N", "a", "N">>,
     <<"x", " ", "y">>, <<>>, <<"1", "x">>}

ValueForms == {Lexeme("value", x, Quoted(q, x)) : x \in Values, q \in Quotes}

\* the bounds of a range, among them a non-number and a quoted number
BoundForms ==
    {Lexeme("value", x, x) : x \in {<<"1">>, <<"4">>, <<"m", "v">>, <<"-", "1", ".", "5">>}}
    \cup {Lexeme("value", <<"4">>, Quoted("single", <<"4">>))}

ToForm == Lexeme("to", <<>>, <<" ", "T", "O", " ">>)

GeoForms ==
    {Lexeme("geo", <<"1", "2", ",", "1", "3", ",", "1", "4">>,
            <<"_", "g", "e", "o", "R", "a", "d", "i", "u", "s", "(",
              "1", "2", ",", " ", "1", "3", ",", " ", "1", "4", ")">>),
     Lexeme("geo", <<"-", "9", "0", ",", "1", "8", "0", ",", "1", ".", "5">>,
            <<"_", "g", "e", "o", "R", "a", "d", "i", "u", "s", "(",
              "-", "9", "0", ",", "1", "8", "0", ",", "1", ".", "5", ")">>)}

Kinds(lexs) == [i \in 1..Len(lexs) |-> lexs[i].kind]

\* lexs without a leading NOT
Unprefixed(lexs) ==
    IF lexs # <<>> /\ lexs[1].kind = "not" THEN Tail(lexs) ELSE lexs

WriteCondition(lex, text) ==
    /\ pc = "write"
    /\ lexemes' = Append(lexemes, lex)
    /\ input' = input \o text
    /\ UNCHANGED <<fields_ids_map, filterable_fields, result, operator, negation, pc>>

WritePrefix == \E lex \in Negations : lexemes = <<>> /\ WriteCondition(lex, lex.text)

WriteKey ==
    \E lex \in KeyForms :
        /\ Unprefixed(lexemes) = <<>>
        /\ WriteCondition(lex, lex.text)

WriteOperator ==
    \E lex \in OpForms :
        /\ Kinds(Unprefixed(lexemes)) = <<"key">>
        /\ WriteCondition(lex, lex.text)

WriteValue ==
    \E lex \in ValueForms :
        /\ Kinds(Unprefixed(lexemes)) = <<"key", "op">>
        /\ WriteCondition(lex, lex.text)

WriteFrom ==
    \E lex \in BoundForms :
        /\ Kinds(Unprefixed(lexemes)) = <<"key">>
        /\ WriteCondition(lex, <<" ">> \o lex.text)

WriteTo ==
    /\ Kinds(Unprefixed(lexemes)) = <<"key", "value">>
    /\ WriteCondition(ToForm, ToForm.text)

WriteBound ==
    \E lex \in BoundForms :
        /\ Kinds(Unprefixed(lexemes)) = <<"key", "value", "to">>
        /\ WriteCondition(lex, lex.text)

WriteGeoRadius ==
    \E lex \in GeoForms :
        /\ Unprefixed(lexemes) = <<>>
        /\ WriteCondition(lex, lex.text)

InitCondition == \E schema \in Schemas : Start(schema)

NextCondition ==
    \/ WritePrefix
    \/ WriteKey
    \/ WriteOperator
    \/ WriteValue
    \/ WriteFrom
    \/ WriteTo
    \/ WriteBound
    \/ WriteGeoRadius
    \/ Parse

SpecCondition == InitCondition /\ [][NextCondition]_vars

----------------------------------------------------------------------------
(* Operator::negate on its own: an operator is drawn, negated, and what    *)
(* negate returned is negated again while it is a single operator.         *)

Numbers == {Finite(FALSE, 1, 0), Finite(TRUE, 15, -1), Infinity(FALSE)}

Strings == {<<"m", "v">>, <<>>}

Operators ==
    {GreaterThan(n) : n \in Numbers}
    \cup {GreaterThanOrEqual(n) : n \in Numbers}
    \cup {LowerThan(n) : n \in Numbers}
    \cup {LowerThanOrEqual(n) : n \in Numbers}
    \cup {Equal(n, str) : n \in {None} \cup {Some(x) : x \in Numbers}, str \in Strings}
    \cup {NotEqual(n, str) : n \in {None} \cup {Some(x) : x \in Numbers}, str \in Strings}
    \cup {Between(n, m) : n \in Numbers, m \in Numbers}
    \cup {GeoLowerThan(<<lat, lng>>, d) : lat \in Numbers, lng \in Numbers, d \in Numbers}
    \cup {GeoGreaterThan(<<lat, lng>>, d) : lat \in Numbers, lng \in Numbers, d \in Numbers}

MaxNegations == 2

InitNegate ==
    /\ fields_ids_map = Index.fields_ids_map
    /\ filterable_fields = Index.filterable_fields
    /\ input = <<>>
    /\ lexemes = <<>>
    /\ result = NoResult
    /\ operator \in Operators
    /\ negation = <<>>
    /\ pc = "negate"

\* operator.negate()
Negate ==
    /\ pc = "negate"
    /\ negation = <<>>
    /\ negation' = <<negate(operator)>>
    /\ UNCHANGED <<fields_ids_map, filterable_fields, input, lexemes, result, operator, pc>>

\* .negate() on the operator the last negate returned, when it returned one
NegateAgain ==
    /\ pc = "negate"
    /\ negation # <<>>
    /\ Len(negation) < MaxNegations
    /\ Len(negation[Len(negation)]) = 1
    /\ negation' = Append(negation, negate(negation[Len(negation)][1]))
    /\ UNCHANGED <<fields_ids_map, filterable_fields, input, lexemes, result, operator, pc>>

NextNegate == Negate \/ NegateAgain

SpecNegate == InitNegate /\ [][NextNegate]_vars

----------------------------------------------------------------------------
(* Writing a _geoRadius clause: the name, "(", the arguments one by one    *)
(* with ", " between them, ")"; the index holds _geo, or holds it without  *)
(* declaring it filterable, or does not hold it.                           *)

\* an index whose _geo field is not among the filterable fields
IndexGeoNotFilterable ==
    [fields_ids_map |-> Index.fields_ids_map,
     filterable_fields |-> Index.filterable_fields \ {GeoField}]

GeoSchemas == {Index, IndexWithoutGeo, IndexGeoNotFilterable}

\* the arguments written: the bounds of the latitude and of the longitude
\* and the numbers next to them
GeoArgForms ==
    {Lexeme("arg", x, x) :
        x \in {<<"9", "0">>, <<"-", "9", "0">>, <<"9", "0", ".", "1">>,
               <<"1", "8", "0">>, <<"-", "1", "8", "0">>,
               <<"1", "8", "0", ".", "5">>, <<"-", "1", "8", "1">>}}

GeoName ==
    Lexeme("geo_name", <<>>, <<"_", "g", "e", "o", "R", "a", "d", "i", "u", "s">>)

MaxGeoArgs == 4

LastKind(lexs) == IF lexs = <<>> THEN "none" ELSE lexs[Len(lexs)].kind

WriteGeoName == lexemes = <<>> /\ WriteCondition(GeoName, GeoName.text)

WriteGeoOpen ==
    /\ LastKind(lexemes) = "geo_name"
    /\ WriteCondition(Lexeme("geo_open", <<>>, <<"(">>), <<"(">>)

WriteGeoArg ==
    \E lex \in GeoArgForms :
        /\ LastKind(lexemes) \in {"geo_open", "arg"}
        /\ Count(lexemes, "arg") < MaxGeoArgs
        /\ WriteCondition(lex, IF LastKind(lexemes) = "arg"
                                THEN <<",", " ">> \o lex.text ELSE lex.text)

WriteGeoClose ==
    /\ LastKind(lexemes) \in {"geo_open", "arg"}
    /\ WriteCondition(Lexeme("geo_close", <<>>, <<")">>), <<")">>)

InitGeoRadius == \E schema \in GeoSchemas : Start(schema)

NextGeoRadius ==
    \/ WriteGeoName
    \/ WriteGeoOpen
    \/ WriteGeoArg
    \/ WriteGeoClose
    \/ Parse

SpecGeoRadius == InitGeoRadius /\ [][NextGeoRadius]_vars

----------------------------------------------------------------------------
(* Writing name = value for attributes named by bare words, among them     *)
(* the keywords of the grammar and a name that begins with NOT; every one  *)
(* is in the fields ids map and filterable.                                *)

WordNames ==
    <<channel, <<"N", "O", "T", "E">>, <<"N", "O", "T">>, <<"A", "N", "D">>,
      <<"O", "R">>, <<"T", "O">>>>

WordIndex ==
    [fields_ids_map |-> FieldsIdsMapOf(WordNames),
     filterable_fields |-> {WordNames[i] : i \in 1..Len(WordNames)}]

\* the same index with a field named by what follows NOT in NOTE
WordIndexWithSuffix ==
    [fields_ids_map |-> FieldsIdsMapOf(Append(WordNames, <<"E">>)),
     filterable_fields |-> WordIndex.filterable_fields \cup {<<"E">>}]

WordForms == {Lexeme("value", x, x) : x \in {<<"m", "v">>, <<"M", "v">>, <<"1", "2">>}}

WriteWordName ==
    \E i \in 1..Len(WordNames) :
        /\ lexemes = <<>>
        /\ WriteCondition(Lexeme("key", WordNames[i], WordNames[i]), WordNames[i])

WriteEquals ==
    \E text \in {<<"=">>, <<" ", "=", " ">>} :
        /\ Kinds(lexemes) = <<"key">>
        /\ WriteCondition(Lexeme("op", <<"=">>, text), text)

WriteWord ==
    \E lex \in WordForms :
        /\ Kinds(lexemes) = <<"key", "op">>
        /\ WriteCondition(lex, lex.text)

InitAttribute == \E schema \in {WordIndex, WordIndexWithSuffix} : Start(schema)

NextAttribute ==
    \/ WriteWordName
    \/ WriteEquals
    \/ WriteWord
    \/ Parse

SpecAttribute == InitAttribute /\ [][NextAttribute]_vars

----------------------------------------------------------------------------
(* FilterCondition::from_array: a filter given as an array whose elements  *)
(* are one rule (Either::Right) or a sequence of rules (Either::Left)      *)

NoCondition == [tag |-> "None"]

\* ands = match ands.take() { Some(ands) => And(ands, rule), None => rule }
and_of(ands, rule) == IF ands.tag = "None" THEN rule ELSE And(ands, rule)

\* ors = match ors.take() { Some(ors) => Or(ors, condition), None => condition }
or_of(ors, condition) == IF ors.tag = "None" THEN condition ELSE Or(ors, condition)

\* the rules of an inner sequence, each parsed on its own and folded with Or
\* from the left; the first rule that fails ends the fold with its error
RECURSIVE from_array_ors(_, _, _)
from_array_ors(index, rules, ors) ==
    IF rules = <<>> THEN Ok(<<>>, ors)
    ELSE and_then(parse_expression(index, Head(rules).text), LAMBDA condition :
         from_array_ors(index, Tail(rules), or_of(ors, condition.val)))

\* the elements of the array folded with And from the left, ands the fold
\* so far
RECURSIVE from_array_ands(_, _, _)
from_array_ands(index, array, ands) ==
    IF array = <<>> THEN Ok(<<>>, ands)
    ELSE and_then(from_array_ors(index, Head(array).text, NoCondition), LAMBDA rule :
         from_array_ands(index, Tail(array), and_of(ands, rule.val)))

from_array(index, array) == from_array_ands(index, array, NoCondition)

\* the rules an array is written from: a comparison, a range, a negated
\* comparison, a disjunction and a comparison on a field that is not
\* filterable
Rules ==
    {Lexeme("simple", <<"a">>, <<"c", "h", "a", "n", " ", "=", " ", "m", "v">>),
     Lexeme("simple", <<"b">>, <<"s", "u", "b", "s", " ", "1", " ", "T", "O", " ", "4">>),
     Lexeme("simple", <<"n">>, <<"N", "O", "T", " ", "c", "h", "a", "n", " ", "=", " ", "m", "v">>),
     Lexeme("compound", <<"o">>, <<"c", "h", "a", "n", " ", "=", " ", "m", "v", " ", "O", "R", " ",
                                   "s", "u", "b", "s", " ", "1", " ", "T", "O", " ", "4">>),
     Lexeme("simple", <<"h">>, <<"h", "i", "d", " ", "=", " ", "1">>)}

\* Either::Right(rule) and Either::Left(rules)
Right(rule) == Lexeme("Right", <<>>, <<rule>>)
Left(rules) == Lexeme("Left", <<>>, rules)

MaxRules == 3

RECURSIVE RuleCount(_)
RuleCount(array) ==
    IF array = <<>> THEN 0 ELSE Len(Head(array).text) + RuleCount(Tail(array))

Group(text) == <<"(">> \o text \o <<")">>

\* a rule as it stands in a longer filter: in parentheses when it holds a
\* connective of its own
Written(rule) == IF rule.kind = "compound" THEN Group(rule.text) ELSE rule.text

RECURSIVE Joined(_, _)
Joined(texts, connective) ==
    IF Len(texts) = 1 THEN texts[1]
    ELSE texts[1] \o connective \o Joined(Tail(texts), connective)

\* an element of the array in the single string: the rule of a Right, the
\* rules of a Left joined with OR, in parentheses
WrittenElement(either) ==
    IF either.kind = "Right" THEN Written(either.text[1])
    ELSE Group(Joined([i \in 1..Len(either.text) |-> Written(either.text[i])],
                      <<" ", "O", "R", " ">>))

\* the array as one filter string: A AND (B OR C) for [A, [B, C]]
SingleString(array) ==
    IF array = <<>> THEN <<>>
    ELSE Joined([i \in 1..Len(array) |-> WrittenElement(array[i])],
                <<" ", "A", "N", "D", " ">>)

\* the caller builds the array (kept in lexemes) and input follows as the
\* same filter in one string
WriteArray(array) ==
    /\ pc = "write"
    /\ RuleCount(lexemes) < MaxRules
    /\ lexemes' = array
    /\ input' = SingleString(array)
    /\ UNCHANGED <<fields_ids_map, filterable_fields, result, operator, negation, pc>>

PushRight == \E rule \in Rules : WriteArray(Append(lexemes, Right(rule)))

PushLeft == \E rule \in Rules : WriteArray(Append(lexemes, Left(<<rule>>)))

\* one more rule in the inner sequence the array ends with
PushRule ==
    \E rule \in Rules :
        /\ lexemes # <<>>
        /\ lexemes[Len(lexemes)].kind = "Left"
        /\ WriteArray([lexemes EXCEPT ![Len(lexemes)].text = Append(@, rule)])

FromArray ==
    /\ pc = "write"
    /\ lexemes # <<>>
    /\ result' = from_array(self, lexemes)
    /\ pc' = "parsed"
    /\ UNCHANGED <<fields_ids_map, filterable_fields, input, lexemes, operator, negation>>

InitFromArray == Start(Index)

NextFromArray ==
    \/ PushRight
    \/ PushLeft
    \/ PushRule
    \/ FromArray

SpecFromArray == InitFromArray /\ [][NextFromArray]_vars

----------------------------------------------------------------------------
(* Claims                                                                  *)

OperatorNames ==
    {"GreaterThan", "GreaterThanOrEqual", "Equal", "NotEqual", "LowerThan",
     "LowerThanOrEqual", "Between", "GeoLowerThan", "GeoGreaterThan"}

\* C4: Operator::negate returns for every operator one operator, or two for
\* Between and only for Between, and negating the single operator it returned
\* gives back the operator it was given, payload unchanged.
C4_NegateIsAnInvolution ==
    /\ \A i \in 1..Len(negation) :
          /\ Len(negation[i]) \in {1, 2}
          /\ \A k \in 1..Len(negation[i]) : negation[i][k].op \in OperatorNames
    /\ Len(negation) >= 1 => (Len(negation[1]) = 2 <=> operator.op = "Between")
    /\ Len(negation) >= 2 => negation[2] = <<operator>>
    /\ \A i \in 3..Len(negation) : negation[i] = negation[i - 2]

\* an Equal with a numeric payload negated twice
C4_Witness ==
    /\ Len(negation) = 2
    /\ operator.op = "Equal"
    /\ operator.n.some
    /\ negation[1][1].op = "NotEqual"

----------------------------------------------------------------------------
(* Claims about one leaf condition, under SpecCondition                    *)

Parsed == pc = "parsed"

Prefixed == lexemes # <<>> /\ lexemes[1].kind = "not"

\* the condition written, without its NOT
Condition == Unprefixed(lexemes)

\* a value written without quotes
IsBare(lex) == lex.text = lex.raw

\* what a written value is read as: all of it between quotes, its leading
\* run of word characters when bare
Token(lex) ==
    IF IsBare(lex) THEN SubSeq(lex.raw, 1, SpanLen(lex.raw, KeyComponent))
    ELSE lex.raw

\* a bare value needs one word character at least
IsToken(lex) == ~IsBare(lex) \/ Token(lex) # <<>>

\* key operator value, the value there
IsComparison ==
    /\ Parsed
    /\ Kinds(Condition) = <<"key", "op", "value">>
    /\ IsToken(Condition[3])

\* key from TO to
IsRange == Parsed /\ Kinds(Condition) = <<"key", "value", "to", "value">>

IsFilterable(name) == name \in DOMAIN fields_ids_map /\ name \in filterable_fields

\* the field ids of the leaves of a tree
RECURSIVE Fids(_)
Fids(fc) ==
    IF fc.tag = "Operator" THEN {fc.fid}
    ELSE IF fc.tag \in {"And", "Or"} THEN Fids(fc.l) \cup Fids(fc.r)
    ELSE {}

\* the numbers among the values written, as f64 reads them
Number(x) ==
    CASE x = <<"1">> -> Some(Finite(FALSE, 1, 0))
      [] x = <<"4">> -> Some(Finite(FALSE, 4, 0))
      [] x = <<"1", "2">> -> Some(Finite(FALSE, 12, 0))
      [] x = <<"-", "1", ".", "5">> -> Some(Finite(TRUE, 15, -1))
      [] x = <<"1", "e", "1">> -> Some(Finite(FALSE, 1, 1))
      [] x = <<"i", "n", "f">> -> Some(Infinity(FALSE))
      [] x = <<"N", "a", "N">> -> Some(NaN)
      [] OTHER -> None

\* C1: a comparison or a range parses to a tree only if its attribute is in
\* the fields ids map and in the filterable fields, every leaf then on the
\* attribute's field id; with any other attribute the parse ends in the
\* Failure "Attribute is not filterable", whatever the values are, and no
\* later alternative is tried.
C1_ParseFidNeedsMapAndFilterable ==
    (IsComparison \/ IsRange) =>
        /\ result.ok =>
              /\ IsFilterable(Condition[1].raw)
              /\ Fids(result.val) = {fields_ids_map[Condition[1].raw]}
        /\ ~IsFilterable(Condition[1].raw) =>
              /\ IsFailure(result)
              /\ result.ctx = AttributeNotFilterable

\* an attribute of the fields ids map that is not filterable, refused
C1_Witness ==
    /\ IsComparison
    /\ Condition[1].raw = hidden
    /\ Condition[1].raw \in DOMAIN fields_ids_map
    /\ IsFailure(result)
    /\ result.ctx = AttributeNotFilterable

\* the condition written after the NOT, parsed on its own
Positive == parse_expression(self, Drop(input, Len(lexemes[1].text)))

NegatedName ==
    [name \in OperatorNames \ {"Between"} |->
        CASE name = "GreaterThan" -> "LowerThanOrEqual"
          [] name = "GreaterThanOrEqual" -> "LowerThan"
          [] name = "LowerThan" -> "GreaterThanOrEqual"
          [] name = "LowerThanOrEqual" -> "GreaterThan"
          [] name = "Equal" -> "NotEqual"
          [] name = "NotEqual" -> "Equal"
          [] name = "GeoLowerThan" -> "GeoGreaterThan"
          [] name = "GeoGreaterThan" -> "GeoLowerThan"]

\* a leaf under the negation table: the operator renamed, field id and
\* payload kept; a range the two leaves outside its bounds
NegatedLeaf(leaf) ==
    IF leaf.op.op = "Between"
    THEN Or(Operator(leaf.fid, LowerThan(leaf.op.n)),
            Operator(leaf.fid, GreaterThan(leaf.op.m)))
    ELSE [leaf EXCEPT !.op.op = NegatedName[leaf.op.op]]

\* C3: one NOT or ! in front of a leaf condition yields the leaf the
\* condition alone parses to, rewritten by the negation table: same field
\* id, same payload, the operator swapped for its opposite, and a range
\* a TO b turned into Or(LowerThan(a), GreaterThan(b)) on one field id.
C3_LeadingNotNegatesTheLeaf ==
    (Parsed /\ Prefixed /\ Positive.ok /\ Positive.val.tag = "Operator") =>
        /\ result.ok
        /\ result.rest = Positive.rest
        /\ result.val = NegatedLeaf(Positive.val)

\* NOT 'dog r' 1 TO 4 parsed to the two leaves outside the range
C3_Witness ==
    /\ Parsed
    /\ Prefixed
    /\ Kinds(Condition) = <<"key", "value", "to", "value">>
    /\ result.ok
    /\ result.val = Or(Operator(1, LowerThan(Finite(FALSE, 1, 0))),
                       Operator(1, GreaterThan(Finite(FALSE, 4, 0))))

\* the operator = or != yields, negated by a leading NOT
EqualityOperator(op, n, str) ==
    IF (op = <<"=">>) # Prefixed THEN Equal(n, str) ELSE NotEqual(n, str)

\* C7: = and != on a filterable attribute parse whatever the right-hand
\* value is; the string payload is the value in lowercase, the numeric
\* payload is there exactly when the value is a number.
C7_EqualityTakesAnyValue ==
    (/\ IsComparison
     /\ Condition[2].raw \in {<<"=">>, <<"!", "=">>}
     /\ IsFilterable(Condition[1].raw)) =>
        /\ result.ok
        /\ result.val =
              Operator(fields_ids_map[Condition[1].raw],
                       EqualityOperator(Condition[2].raw,
                                        Number(Token(Condition[3])),
                                        to_lowercase(Token(Condition[3]))))

\* = Mv, a value that is no number, parsed to the string payload mv alone
C7_Witness ==
    /\ IsComparison
    /\ ~Prefixed
    /\ Condition[2].raw = <<"=">>
    /\ Condition[3].raw = <<"M", "v">>
    /\ result.ok
    /\ result.val.op = Equal(None, <<"m", "v">>)

\* C9: >, <, >= and <= on a filterable attribute with a right-hand value
\* that is no number end in a Failure at that value, carrying its first
\* character (the end of input when the value is the empty string); no
\* later alternative is tried and no tree is produced.
C9_OrderingNeedsANumber ==
    (/\ IsComparison
     /\ Condition[2].raw \in {<<"<">>, <<">">>, <<"<", "=">>, <<">", "=">>}
     /\ IsFilterable(Condition[1].raw)
     /\ ~Number(Token(Condition[3])).some) =>
        /\ IsFailure(result)
        /\ result.at = Token(Condition[3])
        /\ result.ctx = ""
        /\ IF Token(Condition[3]) = <<>> THEN result.kind = "Eof"
           ELSE result.kind = "Char" /\ result.ch = Head(Token(Condition[3]))

\* > mv refused with the character m
C9_Witness ==
    /\ IsComparison
    /\ Condition[2].raw = <<">">>
    /\ Condition[3].raw = <<"m", "v">>
    /\ IsFilterable(Condition[1].raw)
    /\ IsFailure(result)
    /\ result.ch = "m"

\* the first bound of the range written that is no number
OffendingBound ==
    IF Number(Condition[2].raw).some THEN Condition[4].raw ELSE Condition[2].raw

\* C10: a range on a filterable attribute with two numeric bounds yields
\* the one leaf Between(from, to) on the attribute's field id, the bounds
\* in the order written, also when from > to; a bound that is no number
\* ends the parse in a Failure.
C10_RangeKeepsTheWrittenOrder ==
    (IsRange /\ IsFilterable(Condition[1].raw)) =>
        IF Number(Condition[2].raw).some /\ Number(Condition[4].raw).some
        THEN /\ result.ok
             /\ ~Prefixed =>
                   result.val = Operator(fields_ids_map[Condition[1].raw],
                                         Between(Number(Condition[2].raw).v,
                                                 Number(Condition[4].raw).v))
        ELSE /\ IsFailure(result)
             /\ result.at = OffendingBound
             /\ result.ch = Head(OffendingBound)

\* 4 TO 1 parsed to Between(4, 1)
C10_Witness ==
    /\ IsRange
    /\ ~Prefixed
    /\ Condition[2].raw = <<"4">>
    /\ Condition[4].raw = <<"1">>
    /\ result.ok
    /\ result.val.op = Between(Finite(FALSE, 4, 0), Finite(FALSE, 1, 0))

\* key operator value, whatever the value
IsWrittenComparison == Parsed /\ Kinds(Condition) = <<"key", "op", "value">>

\* a non-empty run of word characters: what can be written bare in one piece
IsWord(x) == x # <<>> /\ SpanLen(x, KeyComponent) = Len(x)

\* the comparison written, with key and value written as given
InputWith(key, value) ==
    (IF Prefixed THEN lexemes[1].text ELSE <<>>) \o key \o Condition[2].text \o value

\* what a parse came to: the tree and the input left, or the error without
\* the place in the input it points at
Outcome(r) ==
    IF r.ok THEN r
    ELSE [ok |-> FALSE, fatal |-> r.fatal, kind |-> r.kind, ch |-> r.ch, ctx |-> r.ctx]

\* the comparison written with its value, or its key, quoted another way
ValueQuoted(q) ==
    Outcome(parse_expression(self, InputWith(Condition[1].text,
                                             Quoted(q, Condition[3].raw))))

KeyQuoted(q) ==
    Outcome(parse_expression(self, InputWith(Quoted(q, Condition[1].raw),
                                             Condition[3].text)))

----------------------------------------------------------------------------
(* Claims about expressions, under Spec                                    *)

\* the leaves an expression is written from, as trees
LeafTree(lex) ==
    IF lex.raw = <<"a">> THEN Operator(0, Equal(None, <<"m", "v">>))
    ELSE Operator(2, Between(Finite(FALSE, 1, 0), Finite(FALSE, 4, 0)))

\* every operand written, every parenthesis closed and none closed twice
WellFormed(lexs) ==
    /\ lexs # <<>>
    /\ ~ExpectsOperand(lexs)
    /\ Depth(lexs) = 0
    /\ Count(lexs, "stray") = 0

\* where the connective kind stands outside every parenthesis
TopLevel(lexs, kind) ==
    {i \in 1..Len(lexs) : lexs[i].kind = kind /\ Depth(SubSeq(lexs, 1, i)) = 0}

Last(S) == CHOOSE i \in S : \A j \in S : j <= i

\* negation pushed to the leaves: De Morgan on And and Or, the negation
\* table on a leaf
RECURSIVE DeMorgan(_)
DeMorgan(fc) ==
    IF fc.tag = "And" THEN Or(DeMorgan(fc.l), DeMorgan(fc.r))
    ELSE IF fc.tag = "Or" THEN And(DeMorgan(fc.l), DeMorgan(fc.r))
    ELSE NegatedLeaf(fc)

\* the tree the grammar gives a well-formed expression: OR binds loosest
\* and folds to the left, then AND, then NOT, then parentheses
RECURSIVE Tree(_)
Tree(lexs) ==
    IF TopLevel(lexs, "or") # {}
    THEN Or(Tree(SubSeq(lexs, 1, Last(TopLevel(lexs, "or")) - 1)),
            Tree(SubSeq(lexs, Last(TopLevel(lexs, "or")) + 1, Len(lexs))))
    ELSE IF TopLevel(lexs, "and") # {}
    THEN And(Tree(SubSeq(lexs, 1, Last(TopLevel(lexs, "and")) - 1)),
             Tree(SubSeq(lexs, Last(TopLevel(lexs, "and")) + 1, Len(lexs))))
    ELSE IF lexs[1].kind = "not" THEN DeMorgan(Tree(Tail(lexs)))
    ELSE IF lexs[1].kind = "open" THEN Tree(SubSeq(lexs, 2, Len(lexs) - 1))
    ELSE LeafTree(lexs[1])

\* the tags of the nodes of a tree
RECURSIVE Tags(_)
Tags(fc) ==
    IF fc.tag \in {"And", "Or"} THEN {fc.tag} \cup Tags(fc.l) \cup Tags(fc.r)
    ELSE {fc.tag}

\* C2: an expression of leaves, AND, OR and parentheses parses whole, to the
\* tree in which AND binds tighter than OR, both fold to the left, and a
\* parenthesized expression is one operand.
C2_PrecedenceAndAssociativity ==
    (Parsed /\ WellFormed(lexemes) /\ Count(lexemes, "not") = 0) =>
        /\ result.ok
        /\ result.rest = <<>>
        /\ result.val = Tree(lexemes)

\* leaf AND (leaf OR leaf) parsed to an And with the Or on its right
C2_Witness ==
    /\ Parsed
    /\ Kinds(lexemes) = <<"leaf", "and", "open", "leaf", "or", "leaf", "close">>
    /\ result.ok
    /\ result.val.tag = "And"
    /\ result.val.l.tag = "Operator"
    /\ result.val.r.tag = "Or"

\* NOT, a space, and another NOT or !
SpacedChain(lexs) ==
    \E i \in 1..(Len(lexs) - 1) :
        lexs[i].text = <<"N", "O", "T", " ">> /\ lexs[i + 1].kind = "not"

\* C5 as stated: k NOTs written with a space after each, in front of a
\* comparison, parse to the comparison negated k times.
C5_ChainedNotsParse ==
    (/\ Parsed
     /\ WellFormed(lexemes)
     /\ Len(lexemes) = Count(lexemes, "not") + 1
     /\ \A i \in 1..(Len(lexemes) - 1) : lexemes[i].text = <<"N", "O", "T", " ">>
     /\ lexemes[Len(lexemes)].raw = <<"a">>) =>
        /\ result.ok
        /\ result.val = Tree(lexemes)

\* C6: a NOT in front of a parenthesized group is pushed down to the leaves
\* by De Morgan, NOT (A AND B) to Or(NOT A, NOT B) and NOT (A OR B) to
\* And(NOT A, NOT B), each leaf negated by the negation table; the tree
\* holds And, Or and leaves only.  NOT followed by a space and another
\* NOT is the case of C5.
C6_NotOfAGroupIsDeMorgan ==
    (/\ Parsed
     /\ WellFormed(lexemes)
     /\ ~SpacedChain(lexemes)
     /\ \E i \in 1..(Len(lexemes) - 1) :
            lexemes[i].kind = "not" /\ lexemes[i + 1].kind = "open") =>
        /\ result.ok
        /\ result.rest = <<>>
        /\ result.val = Tree(lexemes)
        /\ Tags(result.val) \subseteq {"And", "Or", "Operator"}

\* NOT (leaf AND leaf) parsed to an Or of the two leaves negated
C6_Witness ==
    /\ Parsed
    /\ Kinds(lexemes) = <<"not", "open", "leaf", "and", "leaf", "close">>
    /\ lexemes[3].raw = <<"a">>
    /\ lexemes[5].raw = <<"b">>
    /\ result.ok
    /\ result.val = Or(Operator(0, NotEqual(None, <<"m", "v">>)),
                       Or(Operator(2, LowerThan(Finite(FALSE, 1, 0))),
                          Operator(2, GreaterThan(Finite(FALSE, 4, 0)))))

----------------------------------------------------------------------------
(* Claims about the _geoRadius clause, under SpecGeoRadius                 *)

\* the arguments written, in order
GeoArguments == [i \in 1..Count(lexemes, "arg") |-> lexemes[i + 2].raw]

\* _geoRadius(a, b, c), closed
IsGeoRadiusOfThree ==
    /\ Parsed
    /\ Kinds(lexemes) = <<"geo_name", "geo_open", "arg", "arg", "arg", "geo_close">>

\* the arguments written that lie in [-90, 90], and in [-180, 180]
IsLatitude(x) == x \in {<<"9", "0">>, <<"-", "9", "0">>}

IsLongitude(x) ==
    x \in {<<"9", "0">>, <<"-", "9", "0">>, <<"9", "0", ".", "1">>,
           <<"1", "8", "0">>, <<"-", "1", "8", "0">>}

\* C11: a _geoRadius clause without an argument list, with an empty one, or
\* with a number of arguments other than three ends in a Failure with the
\* message naming _geoRadius(latitude, longitude, radius), on every index
\* and whatever the arguments are: latitude and longitude are looked at
\* after the count.
C11_GeoRadiusTakesThreeArguments ==
    (Parsed /\ lexemes # <<>> /\ Count(lexemes, "arg") # 3) =>
        /\ IsFailure(result)
        /\ result.ctx = err_msg_args_incomplete

\* _geoRadius(90.1, -181): two arguments, the first no latitude
C11_Witness ==
    /\ Parsed
    /\ LastKind(lexemes) = "geo_close"
    /\ GeoArguments = <<(<<"9", "0", ".", "1">>), (<<"-", "1", "8", "1">>)>>
    /\ IsFailure(result)
    /\ result.ctx = err_msg_args_incomplete

\* what C12 says of a clause of three arguments: the latitude message when
\* the first is outside [-90, 90], else the longitude message when the
\* second is outside [-180, 180], else no failure
GeoBoundsChecked ==
    IF ~IsLatitude(GeoArguments[1])
    THEN IsFailure(result) /\ result.ctx = err_msg_latitude_invalid
    ELSE IF ~IsLongitude(GeoArguments[2])
    THEN IsFailure(result) /\ result.ctx = err_msg_longitude_invalid
    ELSE result.ok

C14_EveryLeafIsFilterable ==
    (Parsed /\ result.ok) =>
        /\ "Empty" \notin Tags(result.val)
        /\ \A fid \in Fids(result.val) :
              \E name \in filterable_fields \cap DOMAIN fields_ids_map :
                  fields_ids_map[name] = fid

----------------------------------------------------------------------------
(* Further claims about one leaf condition, under SpecCondition            *)

\* [NOT] _geoRadius(lat, lng, radius), the three in range
IsGeoRadius == Parsed /\ Kinds(Condition) = <<"geo">>

\* the leaf operator of the clauses written
GeoRadiusOperator(lex) ==
    IF lex.raw = <<"1", "2", ",", "1", "3", ",", "1", "4">>
    THEN GeoLowerThan(<<Finite(FALSE, 12, 0), Finite(FALSE, 13, 0)>>,
                      Finite(FALSE, 14, 0))
    ELSE GeoLowerThan(<<Finite(TRUE, 9, 1), Finite(FALSE, 18, 1)>>,
                      Finite(FALSE, 15, -1))

OperatorNumbers(o) ==
    IF o.op \in {"Equal", "NotEqual"} THEN (IF o.n.some THEN {o.n.v} ELSE {})
    ELSE IF o.op = "Between" THEN {o.n, o.m}
    ELSE IF o.op \in {"GeoLowerThan", "GeoGreaterThan"}
    THEN {o.point[1], o.point[2], o.distance}
    ELSE {o.n}

RECURSIVE TreeNumbers(_)
TreeNumbers(fc) ==
    IF fc.tag = "Operator" THEN OperatorNumbers(fc.op)
    ELSE IF fc.tag \in {"And", "Or"} THEN TreeNumbers(fc.l) \cup TreeNumbers(fc.r)
    ELSE {}

\* C18 as stated: every numeric payload of a tree parsed is a finite number,
\* whatever literal was written.
C18_EveryPayloadIsFinite ==
    (Parsed /\ result.ok) => \A v \in TreeNumbers(result.val) : is_finite(v)

----------------------------------------------------------------------------
(* Claim about attribute names, under SpecAttribute                        *)

\* C19 as stated: name = v, for a filterable attribute named by a bare
\* word, a keyword or a word beginning with NOT included, parses to the one
\* leaf Equal(v) on the field id of name.
C19_BareWordNamesAreAttributes ==
    (Parsed /\ Kinds(lexemes) = <<"key", "op", "value">>) =>
        /\ result.ok
        /\ result.val = Operator(fields_ids_map[lexemes[1].raw],
                                 Equal(Number(lexemes[3].raw),
                                       to_lowercase(lexemes[3].raw)))

----------------------------------------------------------------------------
(* Further claims about expressions, under Spec                            *)

\* C16 as stated: an input that matches no alternative of the grammar and
\* holds no _geoRadius (nothing written, or an operand missing after AND,
\* OR, NOT or "(") fails with a plain syntax error, without the message
\* about the arguments of _geoRadius.
C16_SyntaxErrorIsGeneric ==
    (Parsed /\ ExpectsOperand(lexemes)) =>
        /\ ~result.ok
        /\ result.ctx # err_msg_args_incomplete

\* C17 as stated: an input with a "(" that is never closed, or with a ")"
\* that closes nothing, fails to parse and yields no tree.
C17_UnmatchedParenthesesFail ==
    (Parsed /\ (Depth(lexemes) > 0 \/ Count(lexemes, "stray") > 0)) => ~result.ok

----------------------------------------------------------------------------
(* Claim about from_array, under SpecFromArray                             *)

\* the rules of the array, in order
RECURSIVE RulesOf(_)
RulesOf(array) ==
    IF array = <<>> THEN <<>> ELSE Head(array).text \o RulesOf(Tail(array))

\* C15: from_array gives what parse_expression gives on the same filter
\* written as one string, outer elements joined with AND and the rules of an
\* inner sequence joined with OR in parentheses (the same tree, or the same
\* failure when a rule fails), and an array of one rule gives what parsing
\* that rule gives.
C15_FromArrayIsTheSingleString ==
    Parsed =>
        /\ Outcome(result) = Outcome(parse_expression(self, input))
        /\ RuleCount(lexemes) = 1 =>
              Outcome(result) = Outcome(parse_expression(self, RulesOf(lexemes)[1].text))

\* [A, [B, C]] parsed to And(A, Or(B, C))
C15_Witness ==
    /\ Parsed
    /\ Len(lexemes) = 2
    /\ lexemes[1].kind = "Right"
    /\ lexemes[2].kind = "Left"
    /\ Len(lexemes[2].text) = 2
    /\ result.ok
    /\ result.val.tag = "And"
    /\ result.val.r.tag = "Or"
    /\ result.val = And(parse_expression(self, lexemes[1].text[1].text).val,
                        Or(parse_expression(self, lexemes[2].text[1].text).val,
                           parse_expression(self, lexemes[2].text[2].text).val))

====
